---- MODULE Spec2Model ----
(***************************************************************************)
(* Delivery breakout scanner (nse_delivery.py): trading calendar, per-date *)
(* on-disk cache of normalized delivery records, and breakout analysis.    *)
(*                                                                         *)
(* Dates are day ordinals counted from 2024-01-01 (a Monday, ordinal 0).   *)
(* An optional value (NaN / NaT / None) is a sequence of length 0 or 1.    *)
(***************************************************************************)
EXTENDS Integers, Sequences, FiniteSets, TLC

VARIABLES
    cache,             \* files under LOG_FOLDER: file key -> file content
    pc,                \* position of the current run of the script
    lookback,          \* TRADING_DAYS_LOOKBACK
    today,             \* dt.date.today() of the current run
    nifty500_symbols,  \* universe of the current run
    trading_days,      \* get_last_trading_days(lookback)
    i,                 \* index in trading_days of the date the loop is at
    all_data,          \* frames appended by the fetch loop
    assembled,         \* the dates the frames of all_data were returned for
    yesterday,         \* spike day used by the analysis (optional)
    result,            \* breakout rows after thresholding and sorting
    ret,               \* value returned by the last get_delivery_data call
    requests,          \* dates whose data was requested from the provider in this run
    primes,            \* number of priming requests of this run's get_delivery_data calls
    response,          \* last answer of the provider to a data request (optional)
    fetched            \* file key -> frame of the 200 answer whose file was written to the end

vars == <<cache, pc, lookback, today, nifty500_symbols, trading_days, i,
          all_data, assembled, yesterday, result, ret, requests, primes, response, fetched>>

\* ---------------------------------------------------------------- bounds
MaxLookback == 2       \* largest TRADING_DAYS_LOOKBACK of the run model
MaxRows == 1           \* rows of a provider payload in the run model
CalMaxLookback == 4    \* largest n of the calendar specification
CalMaxToday == 40      \* latest reference date of the calendar specification
WindowDays == 4        \* days of the window of the analysis specification

\* ---------------------------------------------------------------- dates
IsLeap(y) == (y % 4 = 0 /\ y % 100 # 0) \/ y % 400 = 0

DaysInMonth(y, m) ==
    IF m = 2 THEN (IF IsLeap(y) THEN 29 ELSE 28)
    ELSE IF m \in {4, 6, 9, 11} THEN 30 ELSE 31

RECURSIVE WalkMonths(_, _, _)
WalkMonths(y, m, n) ==
    IF n < DaysInMonth(y, m) THEN <<y, m, n + 1>>
    ELSE IF m = 12 THEN WalkMonths(y + 1, 1, n - DaysInMonth(y, m))
    ELSE WalkMonths(y, m + 1, n - DaysInMonth(y, m))

\* year, month, day of a date
YMD(d) == WalkMonths(2024, 1, d)

RECURSIVE DaysBefore(_, _)
\* days from 2024-01-01 to the first day of month m of year y
DaysBefore(y, m) ==
    IF y = 2024 /\ m = 1 THEN 0
    ELSE IF m = 1 THEN DaysBefore(y - 1, 12) + DaysInMonth(y - 1, 12)
    ELSE DaysBefore(y, m - 1) + DaysInMonth(y, m - 1)

\* date.strftime('%Y%m%d'): the eight digits, read as a number
FileKey(d) == YMD(d)[1] * 10000 + YMD(d)[2] * 100 + YMD(d)[3]

\* the DATE cell written by to_csv: YYYY-MM-DD as its three numbers
DateStr(d) == YMD(d)

\* a parse that reads the cell day first
ParseDate_DayFirst(s) ==
    IF s = <<>> THEN <<>>
    ELSE <<DaysBefore(s[1], s[3]) + s[2] - 1>>

\* pd.to_datetime(cell).dt.date; an empty cell is NaT
ParseDate(s) ==
    IF s = <<>> THEN <<>>
    ELSE <<DaysBefore(s[1], s[2]) + s[3] - 1>>

\* a weekday that counts from Sunday
Weekday_FromSunday(d) == (d + 1) % 7

\* date.weekday(): Monday is 0
Weekday(d) == d % 7

\* ---------------------------------------------------------------- calendar
RECURSIVE WalkBack(_, _, _)
\* the while loop of get_last_trading_days: days is kept most recent first
WalkBack(n, current, days) ==
    IF Len(days) >= n THEN days
    ELSE IF Weekday(current) < 5
         THEN WalkBack(n, current - 1, Append(days, current))
         ELSE WalkBack(n, current - 1, days)

RECURSIVE InsertSorted(_, _)
InsertSorted(x, s) ==
    IF s = <<>> THEN <<x>>
    ELSE IF x <= Head(s) THEN <<x>> \o s
    ELSE <<Head(s)>> \o InsertSorted(x, Tail(s))

RECURSIVE Sorted(_)
\* sorted(days)
Sorted(s) == IF s = <<>> THEN <<>> ELSE InsertSorted(Head(s), Sorted(Tail(s)))

get_last_trading_days(n, ref) == Sorted(WalkBack(n, ref - 1, <<>>))

\* ---------------------------------------------------------------- provider
Symbols == {"A", "B"}

\* the universes get_nifty500_symbols may return
Universes == {{"A", "B"}, {"A"}}

\* cells that pd.to_numeric parses, with their values
NumericCells == {"0", "1", "3", "4", "-1"}

NumOf(c) ==
    CASE c = "0" -> 0 [] c = "1" -> 1 [] c = "3" -> 3 [] c = "4" -> 4
      [] c = "-1" -> 0 - 1

\* the cell to_csv writes for a number
CellOf(v) ==
    CASE v = 0 -> "0" [] v = 1 -> "1" [] v = 3 -> "3" [] v = 4 -> "4"
      [] v = 0 - 1 -> "-1"

\* rows of a raw payload: DATE is the payload's own date column, <<>> when
\* the payload has none
RawRows(symbols, qtys, dates) ==
    [SYMBOL : symbols, DELIV_QTY : qtys, DATE : dates]

\* sequences of at most n rows
RECURSIVE SeqsUpTo(_, _)
SeqsUpTo(S, n) ==
    IF n = 0 THEN {<<>>}
    ELSE SeqsUpTo(S, n - 1) \cup
         {Append(s, x) : s \in {t \in SeqsUpTo(S, n - 1) : Len(t) = n - 1}, x \in S}

\* a date column of the payload that disagrees with every requested date
ForeignDate == <<2023, 12, 29>>

\* a payload has a date column or none
OneHeader(p) == \A a, b \in 1..Len(p) : p[a].DATE = p[b].DATE

\* a payload has a row per symbol at most
WellFormed(p) == \A a, b \in 1..Len(p) : a # b => p[a].SYMBOL # p[b].SYMBOL

\* payloads the provider may answer a data request with, in the run model
Payloads ==
    {p \in SeqsUpTo(RawRows({"B"}, {"4", "N/A"}, {<<>>, ForeignDate}), MaxRows) :
        OneHeader(p)}

\* ---------------------------------------------------------------- normalization
\* a coercion that turns a cell that does not parse into 0
ToNumeric_Zero(c) == IF c \in NumericCells THEN <<NumOf(c)>> ELSE <<0>>

\* pd.to_numeric(cell, errors='coerce')
ToNumeric(c) == IF c \in NumericCells THEN <<NumOf(c)>> ELSE <<>>

\* the frame get_delivery_data builds from a payload requested for date
Normalize(payload, date) ==
    [k \in 1..Len(payload) |->
        [SYMBOL |-> payload[k].SYMBOL,
         DELIV_QTY |-> ToNumeric(payload[k].DELIV_QTY),
         DATE |-> <<date>>]]

\* ---------------------------------------------------------------- cache files
QtyCell(q) == IF q = <<>> THEN "" ELSE CellOf(q[1])

DateCell(x) == IF x = <<>> THEN <<>> ELSE DateStr(x[1])

\* df.to_csv(file_path, index=False), written to the end
ToCsv(df) ==
    [header |-> TRUE,
     lines |-> [k \in 1..Len(df) |->
                  [SYMBOL |-> df[k].SYMBOL,
                   DELIV_QTY |-> QtyCell(df[k].DELIV_QTY),
                   DATE |-> DateCell(df[k].DATE)]]]

\* the numeric column as pd.read_csv parses it
ReadQty(c) == IF c = "" THEN <<>> ELSE <<NumOf(c)>>

\* pd.read_csv(file_path) followed by the DATE conversion
ReadCsv(file) ==
    [k \in 1..Len(file.lines) |->
        [SYMBOL |-> file.lines[k].SYMBOL,
         DELIV_QTY |-> ReadQty(file.lines[k].DELIV_QTY),
         DATE |-> ParseDate(file.lines[k].DATE)]]

\* a line cut short: the cells after the cut are absent
CutLines(l) ==
    {[SYMBOL |-> l.SYMBOL, DELIV_QTY |-> "", DATE |-> <<>>],
     [SYMBOL |-> l.SYMBOL, DELIV_QTY |-> l.DELIV_QTY, DATE |-> <<>>]}

\* what to_csv leaves at file_path when the process is killed while it writes
\* file: nothing, whole lines up to some point, or whole lines and a cut one
Truncations(file) ==
    {[header |-> FALSE, lines |-> <<>>]}
    \cup {[header |-> TRUE, lines |-> SubSeq(file.lines, 1, k)] :
            k \in 0..Len(file.lines)}
    \cup UNION {{[header |-> TRUE,
                  lines |-> Append(SubSeq(file.lines, 1, k - 1), c)] :
                    c \in CutLines(file.lines[k])} : k \in 1..Len(file.lines)}

\* os.path.exists(file_path)
Exists(date) == FileKey(date) \in DOMAIN cache

\* the files after file_path of date holds content
Written(date, content) ==
    [k \in DOMAIN cache \cup {FileKey(date)} |->
        IF k = FileKey(date) THEN content ELSE cache[k]]

\* ---------------------------------------------------------------- analysis
RECURSIVE Concat(_)
\* pd.concat(all_data, ignore_index=True)
Concat(frames) ==
    IF frames = <<>> THEN <<>> ELSE Head(frames) \o Concat(Tail(frames))

\* final_df[final_df['SYMBOL'].isin(nifty500_symbols)]
FilterUniverse(df, universe) ==
    LET Keep(r) == r.SYMBOL \in universe IN SelectSeq(df, Keep)

\* final_df[final_df['DATE'] == yesterday]
OnDate(df, date) ==
    LET Keep(r) == r.DATE = <<date>> IN SelectSeq(df, Keep)

RECURSIVE SumQty(_, _)
\* sum of the non-missing DELIV_QTY of symbol s
SumQty(df, s) ==
    IF df = <<>> THEN 0
    ELSE (IF Head(df).SYMBOL = s /\ Head(df).DELIV_QTY # <<>>
          THEN Head(df).DELIV_QTY[1] ELSE 0) + SumQty(Tail(df), s)

RECURSIVE CountQty(_, _)
\* number of the non-missing DELIV_QTY of symbol s
CountQty(df, s) ==
    IF df = <<>> THEN 0
    ELSE (IF Head(df).SYMBOL = s /\ Head(df).DELIV_QTY # <<>>
          THEN 1 ELSE 0) + CountQty(Tail(df), s)

\* groupby('SYMBOL')['DELIV_QTY'].mean(): the mean as sum over count, NaN
\* when count is 0
avg_delivery(df) ==
    [s \in {df[k].SYMBOL : k \in 1..Len(df)} |->
        [sum |-> SumQty(df, s), count |-> CountQty(df, s)]]

\* pd.merge(yesterday_df[['SYMBOL', 'DELIV_QTY']], avg_delivery, on='SYMBOL',
\* how='inner'): rows in the order of yesterday_df
Merge(ydf, avg) ==
    LET Matched(r) == r.SYMBOL \in DOMAIN avg
        left == SelectSeq(ydf, Matched)
    IN [k \in 1..Len(left) |->
          [SYMBOL |-> left[k].SYMBOL,
           DELIV_QTY |-> left[k].DELIV_QTY,
           AVG_30_DELIV_QTY |-> avg[left[k].SYMBOL]]]

\* the threshold with >= in place of >
Exceeds_OrEqual(q, a) ==
    /\ q # <<>>
    /\ a.count > 0
    /\ q[1] * a.count >= 3 * a.sum

\* DELIV_QTY > 3 * AVG_30_DELIV_QTY with the mean as sum / count, compared
\* exactly; a comparison with NaN is false
Exceeds(q, a) ==
    /\ q # <<>>
    /\ a.count > 0
    /\ q[1] * a.count > 3 * a.sum

\* merged[merged['DELIV_QTY'] > 3 * merged['AVG_30_DELIV_QTY']]
Threshold(merged) ==
    LET Keep(r) == Exceeds(r.DELIV_QTY, r.AVG_30_DELIV_QTY) IN SelectSeq(merged, Keep)

\* the integer nearest to num / den for den > 0, halves to the even one
RoundDiv(num, den) ==
    LET f == num \div den
        r == num % den
    IN IF 2 * r < den THEN f
       ELSE IF 2 * r > den THEN f + 1
       ELSE IF f % 2 = 0 THEN f ELSE f + 1

\* (DELIV_QTY / AVG_30_DELIV_QTY).round(2) in hundredths; a zero average
\* gives an infinite quotient
Ratio(q, a) ==
    IF a.sum = 0 THEN [inf |-> TRUE, h |-> 0]
    ELSE IF a.sum > 0
         THEN [inf |-> FALSE, h |-> RoundDiv(100 * q[1] * a.count, a.sum)]
         ELSE [inf |-> FALSE, h |-> RoundDiv(0 - 100 * q[1] * a.count, 0 - a.sum)]

WithRatio(rows) ==
    [k \in 1..Len(rows) |->
        [SYMBOL |-> rows[k].SYMBOL,
         DELIV_QTY |-> rows[k].DELIV_QTY,
         AVG_30_DELIV_QTY |-> rows[k].AVG_30_DELIV_QTY,
         RATIO |-> Ratio(rows[k].DELIV_QTY, rows[k].AVG_30_DELIV_QTY)]]

\* r1 >= r2 on RATIO values
RatioGE(r1, r2) == r1.inf \/ (~r2.inf /\ r1.h >= r2.h)

\* the order of an ascending sort
InOrder_Ascending(x, y) == RatioGE(y.RATIO, x.RATIO)

\* the order sort_values leaves two adjacent rows in
InOrder(x, y) == RatioGE(x.RATIO, y.RATIO)

Orderings(n) == {f \in [1..n -> 1..n] : \A a, b \in 1..n : a # b => f[a] # f[b]}

\* result.sort_values(by='RATIO', ascending=False): the sort is not stable,
\* rows of equal RATIO come out in any order
SortValues(rows) ==
    {[k \in 1..Len(rows) |-> rows[f[k]]] : f \in
        {g \in Orderings(Len(rows)) :
            \A k \in 1..(Len(rows) - 1) : InOrder(rows[g[k]], rows[g[k + 1]])}}

\* the mean taken over the days before the spike day only
Candidates_EarlierDays(frames, universe, spike) ==
    LET final_df == FilterUniverse(Concat(frames), universe)
        NotSpike(r) == r.DATE # <<spike>>
    IN Threshold(Merge(OnDate(final_df, spike),
                       avg_delivery(SelectSeq(final_df, NotSpike))))

\* lines 140-167: the rows that pass the threshold, before RATIO and sorting
Candidates(frames, universe, spike) ==
    LET final_df == FilterUniverse(Concat(frames), universe)
    IN Threshold(Merge(OnDate(final_df, spike), avg_delivery(final_df)))

\* ---------------------------------------------------------------- the script
\* reference date of the runs: Tue 2024-02-06
Todays == {36}

Stopped == {"idle", "done", "nodata", "killed", "error"}

Init ==
    /\ cache = <<>>
    /\ pc = "idle"
    /\ lookback \in 1..MaxLookback
    /\ today = 36
    /\ nifty500_symbols = {}
    /\ trading_days = <<>>
    /\ i = 1
    /\ all_data = <<>>
    /\ assembled = <<>>
    /\ yesterday = <<>>
    /\ result = <<>>
    /\ ret = <<>>
    /\ requests = <<>>
    /\ primes = 0
    /\ response = <<>>
    /\ fetched = <<>>

\* a process that died holds nothing: only the files outlive it
Gone ==
    /\ nifty500_symbols' = {}
    /\ trading_days' = <<>>
    /\ i' = 1
    /\ all_data' = <<>>
    /\ assembled' = <<>>
    /\ yesterday' = <<>>
    /\ result' = <<>>
    /\ ret' = <<>>
    /\ requests' = <<>>
    /\ primes' = 0
    /\ response' = <<>>

\* the date the fetch loop is at
InLoop == pc = "fetch" /\ i <= Len(trading_days)

\* lines 123-128: a run of the script starts; the clock never goes back
StartRun ==
    /\ pc \in Stopped
    /\ today' \in {t \in Todays : t >= today}
    /\ nifty500_symbols' \in Universes
    /\ trading_days' = get_last_trading_days(lookback, today')
    /\ i' = 1
    /\ all_data' = <<>>
    /\ assembled' = <<>>
    /\ yesterday' = <<>>
    /\ result' = <<>>
    /\ ret' = <<>>
    /\ requests' = <<>>
    /\ primes' = 0
    /\ response' = <<>>
    /\ pc' = "fetch"
    /\ UNCHANGED <<cache, lookback, fetched>>

\* lines 73-79 and 132-133: the file exists and is read back
LoadFromDisk(date) ==
    /\ Exists(date)
    /\ cache[FileKey(date)].header
    /\ LET df == ReadCsv(cache[FileKey(date)])
       IN /\ ret' = <<df>>
          /\ all_data' = Append(all_data, df)
          /\ assembled' = Append(assembled, date)
    /\ i' = i + 1
    /\ UNCHANGED <<cache, pc, lookback, today, nifty500_symbols, trading_days,
                   yesterday, result, requests, primes, response, fetched>>

\* line 77 on a file without a header line: read_csv raises and the run dies
LoadError(date) ==
    /\ Exists(date)
    /\ ~cache[FileKey(date)].header
    /\ pc' = "error"
    /\ Gone
    /\ UNCHANGED <<cache, lookback, today, fetched>>

\* a failed fetch that saves the body of the answer as the entry
FetchFailed_Saved(date) ==
    /\ ~Exists(date)
    /\ primes' = primes + 1
    /\ requests' = Append(requests, date)
    /\ \E status \in {404, 503} :
          response' = <<[status |-> status, payload |-> <<>>]>>
    /\ cache' = Written(date, [header |-> TRUE, lines |-> <<>>])
    /\ ret' = <<>>
    /\ i' = i + 1
    /\ UNCHANGED <<pc, lookback, today, nifty500_symbols, trading_days,
                   all_data, assembled, yesterday, result, fetched>>

\* lines 81-99 and 132: the provider answers with a status other than 200
FetchFailed(date) ==
    /\ ~Exists(date)
    /\ primes' = primes + 1
    /\ requests' = Append(requests, date)
    /\ \E status \in {404, 503} :
          response' = <<[status |-> status, payload |-> <<>>]>>
    /\ ret' = <<>>
    /\ i' = i + 1
    /\ UNCHANGED <<cache, pc, lookback, today, nifty500_symbols, trading_days,
                   all_data, assembled, yesterday, result, fetched>>

\* lines 81-116 and 132-133: the provider answers 200 with one of payloads,
\* the frame is normalized, written and returned
Fetch200(date, payloads) ==
    /\ ~Exists(date)
    /\ primes' = primes + 1
    /\ requests' = Append(requests, date)
    /\ \E payload \in payloads :
          LET df == Normalize(payload, date)
          IN /\ response' = <<[status |-> 200, payload |-> payload]>>
             /\ cache' = Written(date, ToCsv(df))
             /\ fetched' = [k \in DOMAIN fetched \cup {FileKey(date)} |->
                              IF k = FileKey(date) THEN df ELSE fetched[k]]
             /\ ret' = <<df>>
             /\ all_data' = Append(all_data, df)
             /\ assembled' = Append(assembled, date)
    /\ i' = i + 1
    /\ UNCHANGED <<pc, lookback, today, nifty500_symbols, trading_days,
                   yesterday, result>>

FetchOk(date) == Fetch200(date, Payloads)

\* lines 81-114: the provider answers 200 and the process is killed while
\* to_csv writes the file
KillDuringWrite(date) ==
    /\ ~Exists(date)
    /\ \E payload \in Payloads :
          LET df == Normalize(payload, date)
          IN \E left \in Truncations(ToCsv(df)) :
                /\ cache' = Written(date, left)
                /\ fetched' = IF left = ToCsv(df)
                              THEN [k \in DOMAIN fetched \cup {FileKey(date)} |->
                                      IF k = FileKey(date) THEN df ELSE fetched[k]]
                              ELSE fetched
    /\ pc' = "killed"
    /\ Gone
    /\ UNCHANGED <<lookback, today>>

\* the process is killed between two calls of the loop
Kill ==
    /\ pc = "fetch"
    /\ pc' = "killed"
    /\ Gone
    /\ UNCHANGED <<cache, lookback, today, fetched>>

\* lines 136-138
NoData ==
    /\ pc = "fetch"
    /\ i > Len(trading_days)
    /\ all_data = <<>>
    /\ pc' = "nodata"
    /\ UNCHANGED <<cache, lookback, today, nifty500_symbols, trading_days, i,
                   all_data, assembled, yesterday, result, ret, requests, primes, response, fetched>>

\* line 145
SpikeDay(days, frames) == days[Len(days)]

\* lines 140-193: the analysis; RATIO and the sort when some row passes
\* the threshold
Analyze ==
    /\ pc = "fetch"
    /\ i > Len(trading_days)
    /\ all_data # <<>>
    /\ LET spike == SpikeDay(trading_days, all_data)
           rows == Candidates(all_data, nifty500_symbols, spike)
       IN /\ yesterday' = <<spike>>
          /\ IF rows # <<>>
             THEN result' \in SortValues(WithRatio(rows))
             ELSE result' = <<>>
    /\ pc' = "done"
    /\ UNCHANGED <<cache, lookback, today, nifty500_symbols, trading_days, i,
                   all_data, assembled, ret, requests, primes, response, fetched>>

\* line 131: the call of get_delivery_data for the date the loop is at, by
\* the way it ends
CacheHit == InLoop /\ LoadFromDisk(trading_days[i])

CacheUnreadable == InLoop /\ LoadError(trading_days[i])

Refused == InLoop /\ FetchFailed(trading_days[i])

Downloaded == InLoop /\ FetchOk(trading_days[i])

KilledWriting == InLoop /\ KillDuringWrite(trading_days[i])

Next ==
    \/ StartRun
    \/ CacheHit
    \/ CacheUnreadable
    \/ Refused
    \/ Downloaded
    \/ KilledWriting
    \/ Kill
    \/ NoData
    \/ Analyze

Spec == Init /\ [][Next]_vars

\* ---------------------------------------------------------------- calendar alone
\* get_last_trading_days applied to every lookback and reference date of a range
CalInit ==
    /\ cache = <<>>
    /\ pc = "idle"
    /\ lookback \in 1..CalMaxLookback
    /\ today \in 1..CalMaxToday
    /\ nifty500_symbols = {}
    /\ trading_days = <<>>
    /\ i = 1
    /\ all_data = <<>>
    /\ assembled = <<>>
    /\ yesterday = <<>>
    /\ result = <<>>
    /\ ret = <<>>
    /\ requests = <<>>
    /\ primes = 0
    /\ response = <<>>
    /\ fetched = <<>>

\* line 126
Calendar ==
    /\ pc = "idle"
    /\ trading_days' = get_last_trading_days(lookback, today)
    /\ pc' = "fetch"
    /\ UNCHANGED <<cache, lookback, today, nifty500_symbols, i, all_data, assembled,
                   yesterday, result, ret, requests, primes, response, fetched>>

CalNext == Calendar

CalSpec == CalInit /\ [][CalNext]_vars

\* ---------------------------------------------------------------- analysis alone
\* A run over a window of WindowDays days in which the provider answers every
\* request with 200: a row per symbol on the days before the last, any rows of
\* distinct symbols in any order on the last day.
HistoryPayloads ==
    {<<a, b>> : a \in {r \in RawRows(Symbols, {"0", "1", ""}, {<<>>}) : r.SYMBOL = "A"},
                b \in {r \in RawRows(Symbols, {"0", "1", ""}, {<<>>}) : r.SYMBOL = "B"}}

LatestPayloads ==
    {p \in SeqsUpTo(RawRows(Symbols, {"3", "4", "-1", "N/A"}, {<<>>}), 2) : WellFormed(p)}

AInit ==
    /\ cache = <<>>
    /\ pc = "fetch"
    /\ lookback = WindowDays
    /\ today = 36
    /\ nifty500_symbols \in Universes
    /\ trading_days = get_last_trading_days(WindowDays, 36)
    /\ i = 1
    /\ all_data = <<>>
    /\ assembled = <<>>
    /\ yesterday = <<>>
    /\ result = <<>>
    /\ ret = <<>>
    /\ requests = <<>>
    /\ primes = 0
    /\ response = <<>>
    /\ fetched = <<>>

\* line 131 when the provider answers 200
FetchWindow ==
    /\ InLoop
    /\ Fetch200(trading_days[i],
                IF i < Len(trading_days) THEN HistoryPayloads ELSE LatestPayloads)

ANext == FetchWindow \/ Analyze

AnalysisSpec == AInit /\ [][ANext]_vars

\* ================================================================ claims

\* ---------------------------------------------------------------- C3
\* the weekdays strictly between two dates
WeekdaysBetween(lo, hi) == {d \in (lo + 1)..(hi - 1) : d % 7 \notin {5, 6}}

\* C3: get_last_trading_days(n) with reference date today returns exactly n
\* dates, strictly ascending (hence pairwise distinct), all earlier than
\* today, none a Saturday or Sunday, and no weekday between the first
\* returned date and today is missing from them.
C3_Calendar ==
    pc = "fetch" =>
        /\ Len(trading_days) = lookback
        /\ \A k \in 1..(Len(trading_days) - 1) : trading_days[k] < trading_days[k + 1]
        /\ \A k \in 1..Len(trading_days) :
              /\ trading_days[k] < today
              /\ trading_days[k] % 7 \notin {5, 6}
        /\ WeekdaysBetween(trading_days[1], today)
              \subseteq {trading_days[k] : k \in 1..Len(trading_days)}

\* a calendar of four days that reaches back over a weekend
C3_Witness ==
    /\ pc = "fetch"
    /\ Len(trading_days) = 4
    /\ today % 7 = 2
    /\ trading_days = <<today - 6, today - 5, today - 2, today - 1>>

\* ---------------------------------------------------------------- window arithmetic
\* positions of the records assembled by the fetch loop
Cells == UNION {{<<k, j>> : j \in 1..Len(all_data[k])} : k \in 1..Len(all_data)}

RecordAt(c) == all_data[c[1]][c[2]]

\* the records of symbol s whose delivered quantity is not missing
NonMissing(s) ==
    {c \in Cells : RecordAt(c).SYMBOL = s /\ RecordAt(c).DELIV_QTY # <<>>}

RECURSIVE Total(_)
Total(S) ==
    IF S = {} THEN 0
    ELSE LET c == CHOOSE x \in S : TRUE
         IN RecordAt(c).DELIV_QTY[1] + Total(S \ {c})

WindowSum(s) == Total(NonMissing(s))

WindowCount(s) == Cardinality(NonMissing(s))

\* the records of symbol s dated on the spike day
SpikeRecords(s) ==
    {c \in Cells : RecordAt(c).SYMBOL = s /\ RecordAt(c).DATE = yesterday}

\* some spike-day record of s is more than 3 times the mean of s
Spikes(s) ==
    \E c \in SpikeRecords(s) :
        /\ RecordAt(c).DELIV_QTY # <<>>
        /\ RecordAt(c).DELIV_QTY[1] * WindowCount(s) > 3 * WindowSum(s)

InResult(s) == \E k \in 1..Len(result) : result[k].SYMBOL = s

\* ---------------------------------------------------------------- C1
\* C1: a symbol is in the breakout result exactly when it is in the
\* universe and has a spike-day record whose delivered quantity is strictly
\* more than 3 times the mean of its non-missing delivered quantities over
\* all assembled records, the spike day included.
C1_Breakout ==
    pc = "done" =>
        \A s \in Symbols : InResult(s) <=> (s \in nifty500_symbols /\ Spikes(s))

\* A is reported while B, which spikes as well, is outside the universe
C1_Witness ==
    /\ pc = "done"
    /\ InResult("A")
    /\ "B" \notin nifty500_symbols
    /\ Spikes("B")

\* ---------------------------------------------------------------- C5
SymbolRank(s) == IF s = "A" THEN 1 ELSE 2

\* row k of the result comes before row k + 1 under ratio descending, and under
\* symbol ascending when the ratios are equal
TieBroken(k) ==
    \/ result[k].RATIO # result[k + 1].RATIO
    \/ SymbolRank(result[k].SYMBOL) <= SymbolRank(result[k + 1].SYMBOL)

\* RATIO of a row is its quotient rounded to hundredths, infinite on a zero mean
Rounded(r) ==
    LET num == 100 * r.DELIV_QTY[1] * r.AVG_30_DELIV_QTY.count
        den == r.AVG_30_DELIV_QTY.sum
        off == num - r.RATIO.h * den
    IN IF den = 0 THEN r.RATIO.inf
       ELSE /\ ~r.RATIO.inf
            /\ 2 * off <= (IF den > 0 THEN den ELSE 0 - den)
            /\ 2 * off >= (IF den > 0 THEN 0 - den ELSE den)

Descending(k) ==
    \/ result[k].RATIO.inf
    \/ ~result[k + 1].RATIO.inf /\ result[k].RATIO.h >= result[k + 1].RATIO.h

\* C5 as stated: the result is ordered by ratio descending and rows of equal
\* rounded ratio are ordered by symbol ascending.
C5_TiesBySymbol ==
    pc = "done" =>
        \A k \in 1..(Len(result) - 1) : Descending(k) /\ TieBroken(k)

\* C5 amended: the result is ordered by rounded ratio descending, each ratio
\* being the quotient of the row rounded to two decimals; nothing is said of
\* the order of rows of equal ratio.
C5_RatioDescending ==
    pc = "done" =>
        /\ \A k \in 1..Len(result) : Rounded(result[k])
        /\ \A k \in 1..(Len(result) - 1) : Descending(k)

\* two candidates of different ratio
C5_Witness ==
    /\ pc = "done"
    /\ Len(result) = 2
    /\ result[1].RATIO.h > result[2].RATIO.h

\* ---------------------------------------------------------------- C6
\* the frame returned for the last answer keeps every row, with a missing
\* quantity where the raw cell is not numeric
Coerced ==
    (response # <<>> /\ response[1].status = 200) =>
        /\ ret # <<>>
        /\ Len(ret[1]) = Len(response[1].payload)
        /\ \A k \in 1..Len(ret[1]) :
              /\ ret[1][k].SYMBOL = response[1].payload[k].SYMBOL
              /\ response[1].payload[k].DELIV_QTY \in {"N/A", ""}
                    => ret[1][k].DELIV_QTY = <<>>

\* C6: a non-numeric raw DELIV_QTY does not fail the fetch or the analysis:
\* the record is kept with a missing quantity; the mean of a reported symbol
\* has the non-missing quantities alone in numerator and denominator; a
\* symbol with no non-missing quantity, or with no non-missing spike-day
\* quantity, is not in the result.
C6_Missing ==
    /\ pc \in {"fetch", "done"}
    /\ Coerced
    /\ pc = "done" =>
          /\ \A k \in 1..Len(result) :
                /\ result[k].AVG_30_DELIV_QTY.sum = WindowSum(result[k].SYMBOL)
                /\ result[k].AVG_30_DELIV_QTY.count = WindowCount(result[k].SYMBOL)
          /\ \A s \in Symbols :
                /\ WindowCount(s) = 0 => ~InResult(s)
                /\ (\A c \in SpikeRecords(s) : RecordAt(c).DELIV_QTY = <<>>)
                      => ~InResult(s)

\* A is reported although one of its earlier quantities is missing, and B of
\* the universe has "N/A" on the spike day
C6_Witness ==
    /\ pc = "done"
    /\ InResult("A")
    /\ \E c \in Cells : RecordAt(c).SYMBOL = "A" /\ RecordAt(c).DELIV_QTY = <<>>
    /\ "B" \in nifty500_symbols
    /\ \E k \in 1..Len(response[1].payload) :
          /\ response[1].payload[k].SYMBOL = "B"
          /\ response[1].payload[k].DELIV_QTY = "N/A"
    /\ ~InResult("B")

\* ---------------------------------------------------------------- C10
NonNegative ==
    \A c \in Cells : RecordAt(c).DELIV_QTY # <<>> => RecordAt(c).DELIV_QTY[1] >= 0

\* C10: when no delivered quantity is negative, every row of the result has
\* a mean above 0 (so a finite ratio), at least 4 non-missing records behind
\* it, and a quotient of at most that number of records.
C10_PositiveAverage ==
    (pc = "done" /\ NonNegative) =>
        \A k \in 1..Len(result) :
            LET a == result[k].AVG_30_DELIV_QTY
            IN /\ a.sum > 0
               /\ ~result[k].RATIO.inf
               /\ a.count >= 4
               /\ WindowCount(result[k].SYMBOL) >= 4
               /\ result[k].DELIV_QTY[1] * a.count <= a.count * a.sum

\* a report from a window without negative quantities
C10_Witness ==
    /\ pc = "done"
    /\ NonNegative
    /\ result # <<>>

\* ---------------------------------------------------------------- C2
\* the entry of date holds the whole frame normalized from the provider's
\* 200 answer
Persisted(date) ==
    /\ Exists(date)
    /\ FileKey(date) \in DOMAIN fetched
    /\ cache[FileKey(date)] = ToCsv(fetched[FileKey(date)])

\* a call for a persisted date returns the frame of the first call and
\* sends the provider nothing
HitStep ==
    (InLoop /\ Persisted(trading_days[i]) /\ pc' = "fetch" /\ i' = i + 1) =>
        /\ ret' = <<fetched[FileKey(trading_days[i])]>>
        /\ all_data' = Append(all_data, fetched[FileKey(trading_days[i])])
        /\ requests' = requests
        /\ primes' = primes
        /\ cache' = cache

\* an entry, once written, is never written again
KeptStep ==
    \A key \in DOMAIN cache :
        /\ key \in DOMAIN cache'
        /\ cache'[key] = cache[key]
        /\ key \in DOMAIN fetched => fetched'[key] = fetched[key]

\* C2: once the entry of a date is persisted from a 200 answer, every later
\* call for the date, in this run or a later one, returns the same
\* normalized records and performs neither priming nor data request.
C2_CacheIdempotent == [][HitStep /\ KeptStep]_vars

\* a run has read back, without any request, a frame with a missing
\* quantity that an earlier run fetched
C2_Witness ==
    /\ pc = "fetch"
    /\ requests = <<>>
    /\ primes = 0
    /\ ret # <<>>
    /\ assembled # <<>>
    /\ FileKey(assembled[Len(assembled)]) \in DOMAIN fetched
    /\ ret[1] = fetched[FileKey(assembled[Len(assembled)])]
    /\ \E k \in 1..Len(ret[1]) : ret[1][k].DELIV_QTY = <<>>

\* ---------------------------------------------------------------- C4
\* the provider answered the request of this step with a status other than 200
FailedStep ==
    /\ Len(requests') > Len(requests)
    /\ response' # <<>>
    /\ response'[1].status # 200

NoDuplicates(seq) == \A a, b \in 1..Len(seq) : a # b => seq[a] # seq[b]

InSeq(x, seq) == \E k \in 1..Len(seq) : seq[k] = x

\* C4: on a non-200 answer get_delivery_data returns None, writes no entry
\* and leaves the other entries alone, and the loop goes on with the next
\* date; no date is requested twice in a run; a date requested without
\* leaving an entry is not among the assembled frames; and a call for a date
\* without an entry, in this or a later run, contacts the provider.
C4_FetchFailed ==
    /\ [](/\ NoDuplicates(requests)
          /\ \A k \in 1..Len(requests) :
                ~Exists(requests[k]) => ~InSeq(requests[k], assembled))
    /\ [][/\ FailedStep =>
                /\ ret' = <<>>
                /\ cache' = cache
                /\ all_data' = all_data
                /\ assembled' = assembled
                /\ pc' = "fetch"
                /\ i' = i + 1
          /\ (InLoop /\ ~Exists(trading_days[i]) /\ pc' = "fetch" /\ i' = i + 1) =>
                /\ requests' = Append(requests, trading_days[i])
                /\ primes' = primes + 1]_vars

\* a run that finished on the second date after the first date failed
C4_Witness ==
    /\ pc = "done"
    /\ Len(requests) = 2
    /\ ~Exists(requests[1])
    /\ assembled = <<requests[2]>>
    /\ Len(all_data) = 1

\* ---------------------------------------------------------------- C7
\* the dates a file key may stand for
KnownDates == 0..36

\* C7 as stated: every record of the entry of a date, and every record
\* returned for a date by get_delivery_data, carries that date.
C7_DateStamped ==
    /\ \A d \in KnownDates :
          (Exists(d) /\ cache[FileKey(d)].header) =>
              \A k \in 1..Len(cache[FileKey(d)].lines) :
                  ReadCsv(cache[FileKey(d)])[k].DATE = <<d>>
    /\ \A k \in 1..Len(all_data) :
          \A j \in 1..Len(all_data[k]) : all_data[k][j].DATE = <<assembled[k]>>

\* ---------------------------------------------------------------- C8
\* C8 as stated: whenever the process stops, every entry of the cache is the
\* complete normalized record set of its 200 answer, and every frame read
\* back is such a set.
C8_AtomicEntries ==
    /\ \A key \in DOMAIN cache :
          /\ key \in DOMAIN fetched
          /\ cache[key] = ToCsv(fetched[key])
    /\ \A k \in 1..Len(all_data) :
          /\ FileKey(assembled[k]) \in DOMAIN fetched
          /\ all_data[k] = fetched[FileKey(assembled[k])]

\* ---------------------------------------------------------------- C9
\* C9 as stated: the spike day of the analysis is the date of the last
\* frame assembled.
C9_SpikeDayIsLastAssembled ==
    pc = "done" => yesterday = <<assembled[Len(assembled)]>>

====
